---------------------------- MODULE Spec2Model ----------------------------
(***************************************************************************)
(* RelaDB (src/__init__.py): typed in-memory tables (Field, Row, Table,    *)
(* Database), the value codec (serialize / deserialize) and the save/load  *)
(* bridge to a single-file SQL engine.                                     *)
(*                                                                         *)
(* Python values are tagged pairs <<kind, payload>>:                       *)
(*   <<"int", n>>       an int                                             *)
(*   <<"float", <<n, ds>>>>  the float n.ds (ds: its fraction digits)      *)
(*   <<"str", cs>>      a str, cs the sequence of its characters           *)
(*   <<"bool", b>>      True / False                                       *)
(*   <<"none", 0>>      None                                               *)
(*   <<"list", vs>>     a list of values                                   *)
(*   <<"dict", ps>>     a dict, ps its <<key characters, value>> items in  *)
(*                      insertion order                                    *)
(* Text is kept as character sequences so that json.dumps and json.loads   *)
(* are computed, character by character, as the library computes them.     *)
(***************************************************************************)
EXTENDS Integers, Sequences, FiniteSets, TLC

VARIABLES db, file, fresh, last

vars == <<db, file, fresh, last>>

---------------------------------------------------------------------------
(* Python values *)

PyInt(n) == <<"int", n>>
PyFloat(n, ds) == <<"float", <<n, ds>>>>
PyStr(cs) == <<"str", cs>>
PyBool(b) == <<"bool", b>>
PyNone == <<"none", 0>>
PyList(vs) == <<"list", vs>>
PyDict(ps) == <<"dict", ps>>

Kind(v) == v[1]
Payload(v) == v[2]

Digits == {"0", "1", "2", "3", "4", "5", "6", "7", "8", "9"}
DigitSeq == <<"0", "1", "2", "3", "4", "5", "6", "7", "8", "9">>

DigitChar(d) == DigitSeq[d + 1]
DigitVal(c) == CHOOSE d \in 0..9 : DigitSeq[d + 1] = c

RECURSIVE IntToStr(_)
IntToStr(n) ==
    IF n < 10 THEN <<DigitChar(n)>>
    ELSE IntToStr(n \div 10) \o <<DigitChar(n % 10)>>

RECURSIVE StrToInt(_)
StrToInt(cs) ==
    IF cs = <<>> THEN 0
    ELSE 10 * StrToInt(SubSeq(cs, 1, Len(cs) - 1)) + DigitVal(cs[Len(cs)])

\* the fraction digits of a float, as repr() shows them: no trailing zeros,
\* and "0" for an integral float
RECURSIVE StripZeros(_)
StripZeros(ds) ==
    IF Len(ds) > 1 /\ ds[Len(ds)] = "0"
    THEN StripZeros(SubSeq(ds, 1, Len(ds) - 1))
    ELSE ds

\* Python's ==: bool is an int (True == 1), other kinds compare structurally.
\* (The floats of the model are compared with ints only when integral.)
Num(v) ==
    IF Kind(v) = "bool" THEN PyInt(IF Payload(v) THEN 1 ELSE 0)
    ELSE IF Kind(v) = "float" /\ Payload(v)[2] = <<"0">> THEN PyInt(Payload(v)[1])
    ELSE v

PyEq(a, b) == Num(a) = Num(b)

---------------------------------------------------------------------------
(* json.dumps, with the default separators ", " and ": ".  Strings inside  *)
(* a composite hold no quote or backslash, so no escape is written.        *)

RECURSIVE Dumps(_), DumpsItems(_), DumpsPairs(_)
Dumps(v) ==
    CASE Kind(v) = "int" -> IntToStr(Payload(v))
      [] Kind(v) = "float" -> IntToStr(Payload(v)[1]) \o <<".">> \o Payload(v)[2]
      [] Kind(v) = "str" -> <<"\"">> \o Payload(v) \o <<"\"">>
      [] Kind(v) = "bool" -> IF Payload(v) THEN <<"t", "r", "u", "e">>
                             ELSE <<"f", "a", "l", "s", "e">>
      [] Kind(v) = "none" -> <<"n", "u", "l", "l">>
      [] Kind(v) = "list" -> <<"[">> \o DumpsItems(Payload(v)) \o <<"]">>
      [] Kind(v) = "dict" -> <<"{">> \o DumpsPairs(Payload(v)) \o <<"}">>

DumpsItems(vs) ==
    IF vs = <<>> THEN <<>>
    ELSE IF Len(vs) = 1 THEN Dumps(vs[1])
    ELSE Dumps(vs[1]) \o <<",", " ">> \o DumpsItems(Tail(vs))

DumpsPairs(ps) ==
    IF ps = <<>> THEN <<>>
    ELSE LET one == <<"\"">> \o ps[1][1] \o <<"\"", ":", " ">> \o Dumps(ps[1][2])
         IN IF Len(ps) = 1 THEN one
            ELSE one \o <<",", " ">> \o DumpsPairs(Tail(ps))

---------------------------------------------------------------------------
(* json.loads: the scanner of the json module over JSON text without sign, *)
(* exponent or backslash escape.  A parse yields [ok, val, next]: next is  *)
(* the index after the value.                                              *)

Fail == [ok |-> FALSE, val |-> PyNone, next |-> 0]
Parsed(v, n) == [ok |-> TRUE, val |-> v, next |-> n]

At(s, i) == IF i >= 1 /\ i <= Len(s) THEN s[i] ELSE "EOF"

RECURSIVE SkipWs(_, _)
SkipWs(s, i) == IF At(s, i) = " " THEN SkipWs(s, i + 1) ELSE i

StartsWith(s, i, w) ==
    /\ i + Len(w) - 1 <= Len(s)
    /\ SubSeq(s, i, i + Len(w) - 1) = w

RECURSIVE FindQuote(_, _)
FindQuote(s, i) ==
    IF i > Len(s) THEN 0
    ELSE IF s[i] = "\"" THEN i
    ELSE FindQuote(s, i + 1)

RECURSIVE DigitsEnd(_, _)
DigitsEnd(s, i) == IF At(s, i) \in Digits THEN DigitsEnd(s, i + 1) ELSE i

\* the closing quote ends the string that starts at i
ParseString(s, i) ==
    LET q == FindQuote(s, i)
    IN IF q = 0 THEN Fail ELSE Parsed(PyStr(SubSeq(s, i, q - 1)), q + 1)

\* NUMBER_RE: (0|[1-9]\d*)(\.\d+)?  - a leading 0 ends the integer part
ParseNumber(s, i) ==
    LET e == IF s[i] = "0" THEN i + 1 ELSE DigitsEnd(s, i)
        f == DigitsEnd(s, e + 1)
    IN IF At(s, e) = "." /\ f > e + 1
       THEN Parsed(PyFloat(StrToInt(SubSeq(s, i, e - 1)),
                           StripZeros(SubSeq(s, e + 1, f - 1))), f)
       ELSE Parsed(PyInt(StrToInt(SubSeq(s, i, e - 1))), e)

\* a dict keeps a repeated key at its first position with the last value
DictPut(ps, k, v) ==
    IF \E j \in 1..Len(ps) : ps[j][1] = k
    THEN [j \in 1..Len(ps) |-> IF ps[j][1] = k THEN <<k, v>> ELSE ps[j]]
    ELSE Append(ps, <<k, v>>)

RECURSIVE ParseValue(_, _), ParseElems(_, _, _), ParseMembers(_, _, _)
ParseValue(s, i) ==
    CASE At(s, i) = "\"" -> ParseString(s, i + 1)
      [] At(s, i) = "{" ->
            LET j == SkipWs(s, i + 1)
            IN IF At(s, j) = "}" THEN Parsed(PyDict(<<>>), j + 1)
               ELSE ParseMembers(s, j, <<>>)
      [] At(s, i) = "[" ->
            LET j == SkipWs(s, i + 1)
            IN IF At(s, j) = "]" THEN Parsed(PyList(<<>>), j + 1)
               ELSE ParseElems(s, j, <<>>)
      [] StartsWith(s, i, <<"n", "u", "l", "l">>) -> Parsed(PyNone, i + 4)
      [] StartsWith(s, i, <<"t", "r", "u", "e">>) -> Parsed(PyBool(TRUE), i + 4)
      [] StartsWith(s, i, <<"f", "a", "l", "s", "e">>) -> Parsed(PyBool(FALSE), i + 5)
      [] At(s, i) \in Digits -> ParseNumber(s, i)
      [] OTHER -> Fail

ParseElems(s, i, acc) ==
    LET r == ParseValue(s, i)
        j == SkipWs(s, r.next)
    IN IF ~r.ok THEN Fail
       ELSE IF At(s, j) = "]" THEN Parsed(PyList(Append(acc, r.val)), j + 1)
       ELSE IF At(s, j) = "," THEN ParseElems(s, SkipWs(s, j + 1), Append(acc, r.val))
       ELSE Fail

ParseMembers(s, i, acc) ==
    LET k == ParseString(s, i + 1)
        c == SkipWs(s, k.next)
        r == ParseValue(s, SkipWs(s, c + 1))
        j == SkipWs(s, r.next)
    IN IF At(s, i) # "\"" \/ ~k.ok \/ At(s, c) # ":" \/ ~r.ok THEN Fail
       ELSE IF At(s, j) = "}"
            THEN Parsed(PyDict(DictPut(acc, Payload(k.val), r.val)), j + 1)
       ELSE IF At(s, j) = ","
            THEN ParseMembers(s, SkipWs(s, j + 1), DictPut(acc, Payload(k.val), r.val))
       ELSE Fail

\* JSONDecoder.decode: leading whitespace, one value, trailing whitespace,
\* and nothing else ("Extra data")
Loads(s) ==
    LET r == ParseValue(s, SkipWs(s, 1))
    IN IF r.ok /\ SkipWs(s, r.next) = Len(s) + 1 THEN r ELSE Fail

---------------------------------------------------------------------------
(* the value codec *)

serialize(value) ==
    IF Kind(value) \in {"dict", "list"} THEN PyStr(Dumps(value)) ELSE value

\* json.loads raises TypeError on anything but text, JSONDecodeError on
\* text that does not parse; both return the value unchanged
deserialize(value) ==
    IF Kind(value) = "str" /\ Loads(Payload(value)).ok
    THEN Loads(Payload(value)).val
    ELSE value

---------------------------------------------------------------------------
(* declared types: Field.data_type is a Python type.  "union" is           *)
(* typing.Union[list, dict], the type load() gives a JSON column.          *)

\* isinstance(value, data_type); bool is a subclass of int, and a Union
\* matches an instance of any of its members (Python 3.10 and later)
IsInstance(value, data_type) ==
    CASE data_type = "int" -> Kind(value) \in {"int", "bool"}
      [] data_type = "union" -> Kind(value) \in {"list", "dict"}
      [] OTHER -> Kind(value) = data_type

Field(name, data_type) == [name |-> name, data_type |-> data_type]

---------------------------------------------------------------------------
(* Row: fields maps a field name to its encoded value.  Keyword arguments  *)
(* are sequences of <<name, value>> with distinct names, in call order.    *)

KwNames(kwargs) == {kwargs[i][1] : i \in 1..Len(kwargs)}
KwValue(kwargs, n) == kwargs[CHOOSE i \in 1..Len(kwargs) : kwargs[i][1] = n][2]

Row(kwargs) == [n \in KwNames(kwargs) |-> serialize(KwValue(kwargs, n))]

\* Row.get(field): one decoded value (KeyError when the row lacks it)
Row_get(row, field) == deserialize(row[field])

\* Row.get(): every value decoded
Row_get_all(row) == [i \in DOMAIN row |-> deserialize(row[i])]

Row_add_field(row, field_name, field_value) ==
    [n \in DOMAIN row \cup {field_name} |->
        IF n = field_name THEN serialize(field_value) ELSE row[n]]

---------------------------------------------------------------------------
(* Table *)

Table(name) == [name |-> name, fields |-> <<>>, rows |-> <<>>]

FieldNames(t) == {t.fields[j].name : j \in 1..Len(t.fields)}

add_field(t, field_name, data_type) ==
    [t EXCEPT !.fields = Append(@, Field(field_name, data_type))]

RECURSIVE add_fields(_, _)
add_fields(t, fields_dict) ==
    IF fields_dict = <<>> THEN t
    ELSE add_fields(add_field(t, fields_dict[1][1], fields_dict[1][2]),
                    Tail(fields_dict))

\* delete_fields that edits the schema and leaves the Rows as they were
delete_fields_schema_only(t, field_names) ==
    LET Kept(f) == f.name \notin field_names
    IN [t EXCEPT !.fields = SelectSeq(@, Kept)]

\* delete_fields that also drops from every Row the values of the fields named
\* "a" whenever any field is deleted
delete_fields_greedy(t, field_names) ==
    LET Kept(f) == f.name \notin field_names
        gone == IF field_names = {} THEN {} ELSE field_names \cup {"a"}
    IN [t EXCEPT
          !.fields = SelectSeq(@, Kept),
          !.rows = [k \in 1..Len(@) |-> [n \in DOMAIN @[k] \ gone |-> @[k][n]]]]

delete_fields(t, field_names) ==
    LET Kept(f) == f.name \notin field_names
    IN [t EXCEPT
          !.fields = SelectSeq(@, Kept),
          !.rows = [k \in 1..Len(@) |->
                      [n \in DOMAIN @[k] \ field_names |-> @[k][n]]]]

\* next((field.data_type for field in _fields if field.name == name), None)
ExpectedType(t, field_name) ==
    IF field_name \in FieldNames(t)
    THEN LET j == CHOOSE j \in 1..Len(t.fields) :
                    /\ t.fields[j].name = field_name
                    /\ \A h \in 1..(j - 1) : t.fields[h].name # field_name
         IN t.fields[j].data_type
    ELSE "None"

\* the first check that fails, in keyword order
RECURSIVE KwError(_, _)
KwError(t, kwargs) ==
    IF kwargs = <<>> THEN "none"
    ELSE IF ExpectedType(t, kwargs[1][1]) = "None" THEN "UnknownField"
    ELSE IF ~IsInstance(kwargs[1][2], ExpectedType(t, kwargs[1][1])) THEN "TypeMismatch"
    ELSE KwError(t, Tail(kwargs))

\* add_row that appends the Row before it checks the values
add_row_append_first(t, kwargs) ==
    IF Len(kwargs) # Len(t.fields) THEN [err |-> "SchemaMismatch", tbl |-> t]
    ELSE [err |-> KwError(t, kwargs), tbl |-> [t EXCEPT !.rows = Append(@, Row(kwargs))]]

\* [err, tbl]: the error raised ("none" when the row was added), the table after
add_row(t, kwargs) ==
    IF Len(kwargs) # Len(t.fields) THEN [err |-> "SchemaMismatch", tbl |-> t]
    ELSE IF KwError(t, kwargs) # "none" THEN [err |-> KwError(t, kwargs), tbl |-> t]
    ELSE [err |-> "none", tbl |-> [t EXCEPT !.rows = Append(@, Row(kwargs))]]

\* a caller's predicate: <<"true">> is the default lambda, <<"eq", f, v>> is
\* lambda row: row.get().get(f) == v
Condition(cond, row) ==
    \/ cond[1] = "true"
    \/ /\ cond[1] = "eq"
       /\ cond[2] \in DOMAIN row
       /\ PyEq(Row_get_all(row)[cond[2]], cond[3])

\* delete_row that removes the first matching Row only
delete_row_first_only(t, cond) ==
    LET hits == {k \in 1..Len(t.rows) : Condition(cond, t.rows[k])}
        first == CHOOSE k \in hits : \A h \in hits : k <= h
    IN IF hits = {} THEN t
       ELSE [t EXCEPT !.rows = SubSeq(@, 1, first - 1) \o SubSeq(@, first + 1, Len(@))]

delete_row(t, cond) ==
    LET Kept(row) == ~Condition(cond, row)
    IN [t EXCEPT !.rows = SelectSeq(@, Kept)]

\* find that truncates to the last `amount` matches (matching_rows[-amount:])
find_last_matches(t, cond, amount) ==
    LET Match(row) == Condition(cond, row)
        matching_rows == SelectSeq(t.rows, Match)
    IN IF amount > 0 /\ amount < Len(matching_rows)
       THEN SubSeq(matching_rows, Len(matching_rows) - amount + 1, Len(matching_rows))
       ELSE matching_rows

find(t, cond, amount) ==
    LET Match(row) == Condition(cond, row)
        matching_rows == SelectSeq(t.rows, Match)
    IN IF amount > 0
       THEN SubSeq(matching_rows, 1, IF amount < Len(matching_rows)
                                     THEN amount ELSE Len(matching_rows))
       ELSE matching_rows

---------------------------------------------------------------------------
(* Database: _tables is a dict, here the sequence of its Tables in         *)
(* insertion order.                                                        *)

TableNames(d) == {d[i].name : i \in 1..Len(d)}
IndexOf(d, table_name) == CHOOSE i \in 1..Len(d) : d[i].name = table_name

\* create that stores the new Table whether or not the name is taken
create_overwrite(d, table_name, fields) ==
    IF table_name \in TableNames(d)
    THEN [err |-> "TableAlreadyExists",
          db |-> [d EXCEPT ![IndexOf(d, table_name)] = add_fields(Table(table_name), fields)]]
    ELSE [err |-> "none", db |-> Append(d, add_fields(Table(table_name), fields))]

create(d, table_name, fields) ==
    IF table_name \in TableNames(d)
    THEN [err |-> "TableAlreadyExists", db |-> d]
    ELSE [err |-> "none", db |-> Append(d, add_fields(Table(table_name), fields))]

delete(d, table_name) ==
    IF table_name \notin TableNames(d)
    THEN [err |-> "TableNotFound", db |-> d]
    ELSE LET Other(t) == t.name # table_name
         IN [err |-> "none", db |-> SelectSeq(d, Other)]

get(d, table_name) ==
    IF table_name \notin TableNames(d)
    THEN [err |-> "TableNotFound", tbl |-> Table(table_name)]
    ELSE [err |-> "none", tbl |-> d[IndexOf(d, table_name)]]

\* the Database with table t replaced by its new state (Tables are mutated
\* in place through the reference get() or create() returned)
Put(d, t) == [d EXCEPT ![IndexOf(d, t.name)] = t]

---------------------------------------------------------------------------
(* The file engine (sqlite3), at the interface save() and load() use.  The *)
(* file is the sequence of its tables in catalog order; a persisted table  *)
(* is [name, cols, rows], cols a sequence of [name, kind], a row one       *)
(* stored value per column.                                                *)

\* DROP TABLE IF EXISTS name
DropTable(f, table_name) ==
    LET Other(t) == t.name # table_name
    IN SelectSeq(f, Other)

\* CREATE TABLE name (cols): an empty column list is a syntax error, a
\* repeated column name is rejected; the new table is last in the catalog
CreateTable(f, table_name, cols) ==
    IF \/ cols = <<>>
       \/ \E i, j \in 1..Len(cols) : i # j /\ cols[i].name = cols[j].name
    THEN [err |-> "OperationalError", file |-> f]
    ELSE [err |-> "none",
          file |-> Append(f, [name |-> table_name, cols |-> cols, rows |-> <<>>])]

\* text the engine reads as a number: digits, an optional fraction, spaces around
SqlNumeric(cs) ==
    LET i == SkipWs(cs, 1)
        e == DigitsEnd(cs, i)
        f == IF At(cs, e) = "." THEN DigitsEnd(cs, e + 1) ELSE e
    IN e > i /\ SkipWs(cs, f) = Len(cs) + 1

SqlNumber(cs) ==
    LET i == SkipWs(cs, 1)
        e == DigitsEnd(cs, i)
        f == DigitsEnd(cs, e + 1)
    IN IF At(cs, e) = "." /\ f > e + 1
       THEN PyFloat(StrToInt(SubSeq(cs, i, e - 1)), StripZeros(SubSeq(cs, e + 1, f - 1)))
       ELSE PyInt(StrToInt(SubSeq(cs, i, e - 1)))

\* the value a column of the declared kind stores for a bound parameter:
\* TEXT turns numbers into text, INTEGER and JSON (numeric affinity) turn
\* numeric text and integral floats into integers, REAL into floats
Affinity(kind, v) ==
    LET n == IF Kind(v) = "str" /\ SqlNumeric(Payload(v)) THEN SqlNumber(Payload(v)) ELSE v
    IN CASE kind = "TEXT" ->
              IF Kind(v) \in {"int", "float"} THEN PyStr(Dumps(v)) ELSE v
         [] kind = "REAL" ->
              IF Kind(n) = "int" THEN PyFloat(Payload(n), <<"0">>) ELSE n
         [] OTHER ->
              IF Kind(n) = "float" /\ Payload(n)[2] = <<"0">> THEN PyInt(Payload(n)[1]) ELSE n

\* the sqlite3 module binds a bool as the integer it is
Bind(v) == IF Kind(v) = "bool" THEN PyInt(IF Payload(v) THEN 1 ELSE 0) ELSE v

\* INSERT INTO name (row's keys) VALUES (?...): a key that is no column, or
\* no key at all, is an error; a column the row lacks stores NULL
Insert(f, table_name, row) ==
    LET k == CHOOSE k \in 1..Len(f) : f[k].name = table_name
        cols == f[k].cols
        ColNames == {cols[j].name : j \in 1..Len(cols)}
        values == [n \in DOMAIN row |-> serialize(row[n])]
        stored == [j \in 1..Len(cols) |->
                     IF cols[j].name \in DOMAIN row
                     THEN Affinity(cols[j].kind, Bind(values[cols[j].name]))
                     ELSE PyNone]
    IN IF DOMAIN row = {} \/ ~(DOMAIN row \subseteq ColNames)
       THEN [err |-> "OperationalError", file |-> f]
       ELSE [err |-> "none", file |-> [f EXCEPT ![k].rows = Append(@, stored)]]

---------------------------------------------------------------------------
(* Database.save *)

ColumnKind(data_type) ==
    IF data_type = "list" \/ data_type = "dict" THEN "JSON"
    ELSE IF data_type = "float" THEN "REAL"
    ELSE IF data_type = "int" THEN "INTEGER"
    ELSE "TEXT"

field_definitions(t) ==
    [j \in 1..Len(t.fields) |->
        [name |-> t.fields[j].name, kind |-> ColumnKind(t.fields[j].data_type)]]

RECURSIVE InsertRows(_, _, _, _)
InsertRows(f, table_name, rows, k) ==
    IF k > Len(rows) THEN [err |-> "none", file |-> f]
    ELSE LET r == Insert(f, table_name, rows[k])
         IN IF r.err # "none" THEN r
            ELSE InsertRows(r.file, table_name, rows, k + 1)

\* The loop of save() from table i on.  working is the file as the
\* connection sees it, committed what a failure leaves behind: the sqlite3
\* module commits a DROP or CREATE at once while no transaction is open,
\* opens one before the first INSERT, and an exception leaves save() before
\* commit(), so everything from the first INSERT on is rolled back.
RECURSIVE SaveTables(_, _, _, _, _)
SaveTables(d, i, committed, working, inTxn) ==
    IF i > Len(d) THEN [err |-> "none", file |-> working]
    ELSE LET t == d[i]
             dropped == DropTable(working, t.name)
             c == CreateTable(dropped, t.name, field_definitions(t))
             ins == InsertRows(c.file, t.name, t.rows, 1)
             kept == IF inTxn THEN committed ELSE c.file
         IN IF c.err # "none"
            THEN [err |-> c.err, file |-> IF inTxn THEN committed ELSE dropped]
            ELSE IF ins.err # "none" THEN [err |-> ins.err, file |-> kept]
            ELSE SaveTables(d, i + 1, kept, ins.file, inTxn \/ t.rows # <<>>)

save(d, f) == SaveTables(d, 1, f, f, FALSE)

---------------------------------------------------------------------------
(* Database.load *)

InferType(col_type) ==
    IF col_type = "JSON" THEN "union"
    ELSE IF col_type = "REAL" THEN "float"
    ELSE IF col_type = "INTEGER" THEN "int"
    ELSE "str"

fields_dict(columns) ==
    [j \in 1..Len(columns) |-> <<columns[j].name, InferType(columns[j].kind)>>]

\* add_row for the persisted rows from k on; stops at the first that fails
RECURSIVE LoadRows(_, _, _, _)
LoadRows(t, columns, rows, k) ==
    IF k > Len(rows) THEN [err |-> "none", tbl |-> t]
    ELSE LET kwargs == [i \in 1..Len(columns) |->
                          <<columns[i].name, deserialize(rows[k][i])>>]
             r == add_row(t, kwargs)
         IN IF r.err # "none" THEN r
            ELSE LoadRows(r.tbl, columns, rows, k + 1)

\* the loop of load() from persisted table i on
RECURSIVE LoadTables(_, _, _)
LoadTables(d, f, i) ==
    IF i > Len(f) THEN [err |-> "none", db |-> d]
    ELSE IF f[i].name = "sqlite_sequence" THEN LoadTables(d, f, i + 1)
    ELSE LET c == create(d, f[i].name, fields_dict(f[i].cols))
             r == LoadRows(c.db[Len(c.db)], f[i].cols, f[i].rows, 1)
         IN IF c.err # "none" THEN [err |-> c.err, db |-> d]
            ELSE IF r.err # "none" THEN [err |-> r.err, db |-> Put(c.db, r.tbl)]
            ELSE LoadTables(Put(c.db, r.tbl), f, i + 1)

\* load that undoes its own Tables when it fails
load_all_or_nothing(d, f) ==
    IF LoadTables(d, f, 1).err = "none" THEN LoadTables(d, f, 1)
    ELSE [err |-> LoadTables(d, f, 1).err, db |-> d]

load(d, f) == LoadTables(d, f, 1)

---------------------------------------------------------------------------
(* The state machine.  db is the Database under test (_tables), file the   *)
(* contents of db_file, fresh a second Database bound to the same file     *)
(* that load() fills from empty.  last records the latest call: its        *)
(* operation, table, the error it raised ("none" when it returned), the    *)
(* arguments and the value returned (for delete_fields and delete_row,     *)
(* which return nothing, the number of Fields or Rows removed).            *)

MaxRows == 2
MaxFields == 2

Called(op, tbl, err, arg, ret) ==
    [op |-> op, tbl |-> tbl, err |-> err, arg |-> arg, ret |-> ret]

Init ==
    /\ db = <<>>
    /\ file = <<>>
    /\ fresh = <<>>
    /\ last = Called("init", "", "none", 0, 0)

\* the Table named n of the Database under test
Tbl(n) == db[IndexOf(db, n)]

Create(n, fields) ==
    LET r == create(db, n, fields)
    IN /\ db' = r.db
       /\ last' = Called("create", n, r.err, fields, 0)
       /\ UNCHANGED <<file, fresh>>

Delete(n) ==
    LET r == delete(db, n)
    IN /\ db' = r.db
       /\ last' = Called("delete", n, r.err, 0, 0)
       /\ UNCHANGED <<file, fresh>>

Get(n) ==
    LET r == get(db, n)
    IN /\ last' = Called("get", n, r.err, 0, r.tbl)
       /\ UNCHANGED <<db, file, fresh>>

AddField(n, field_name, data_type) ==
    /\ n \in TableNames(db)
    /\ Len(Tbl(n).fields) < MaxFields
    /\ db' = Put(db, add_field(Tbl(n), field_name, data_type))
    /\ last' = Called("add_field", n, "none", 0, 0)
    /\ UNCHANGED <<file, fresh>>

DeleteFields(n, field_names) ==
    /\ n \in TableNames(db)
    /\ db' = Put(db, delete_fields(Tbl(n), field_names))
    /\ last' = Called("delete_fields", n, "none", field_names,
                       Len(Tbl(n).fields) - Len(delete_fields(Tbl(n), field_names).fields))
    /\ UNCHANGED <<file, fresh>>

AddRow(n, kwargs) ==
    /\ n \in TableNames(db)
    /\ Len(Tbl(n).rows) < MaxRows
    /\ LET r == add_row(Tbl(n), kwargs)
       IN /\ db' = Put(db, r.tbl)
          /\ last' = Called("add_row", n, r.err, kwargs, 0)
    /\ UNCHANGED <<file, fresh>>

DeleteRow(n, cond) ==
    /\ n \in TableNames(db)
    /\ db' = Put(db, delete_row(Tbl(n), cond))
    /\ last' = Called("delete_row", n, "none", cond,
                       Len(Tbl(n).rows) - Len(delete_row(Tbl(n), cond).rows))
    /\ UNCHANGED <<file, fresh>>

Find(n, cond, amount) ==
    /\ n \in TableNames(db)
    /\ last' = Called("find", n, "none", <<cond, amount>>, find(Tbl(n), cond, amount))
    /\ UNCHANGED <<db, file, fresh>>

\* Row.add_field on the k-th Row of the Table, as find() hands it out
RowAddField(n, k, field_name, field_value) ==
    /\ n \in TableNames(db)
    /\ k \in 1..Len(Tbl(n).rows)
    /\ db' = Put(db, [Tbl(n) EXCEPT
                        !.rows[k] = Row_add_field(@, field_name, field_value)])
    /\ last' = Called("row_add_field", n, "none", <<k, field_name>>, 0)
    /\ UNCHANGED <<file, fresh>>

Save ==
    LET r == save(db, file)
    IN /\ file' = r.file
       /\ last' = Called("save", "", r.err, 0, 0)
       /\ UNCHANGED <<db, fresh>>

Load ==
    LET r == load(db, file)
    IN /\ db' = r.db
       /\ last' = Called("load", "", r.err, 0, 0)
       /\ UNCHANGED <<file, fresh>>

\* Database(db_file).load() on a new Database bound to the same file
LoadFresh ==
    LET r == load(<<>>, file)
    IN /\ fresh' = r.db
       /\ last' = Called("load_fresh", "", r.err, 0, 0)
       /\ UNCHANGED <<db, file>>

---------------------------------------------------------------------------
(* inputs *)

Chr_ab == <<"a", "b">>
Chr_12 == <<"1", "2">>
Chr_true == <<"t", "r", "u", "e">>

ListAB == PyList(<<PyStr(<<"a">>), PyStr(<<"b">>)>>)
DictA1 == PyDict(<< <<<<"a">>, PyInt(1)>> >>)

\* keyword arguments: up to two distinct names of Names with values of Vals
KwargsOver(Names, Vals) ==
    {<<>>}
    \cup {<< <<n, v>> >> : n \in Names, v \in Vals}
    \cup {<< <<n, v>>, <<m, w>> >> : <<n, v, m, w>> \in
            {q \in Names \X Vals \X Names \X Vals : q[1] # q[3]}}

---------------------------------------------------------------------------
(* SpecSchema: one Table under every schema and row operation, with lax    *)
(* schema edits (Table.add_field on a Table with rows, Row.add_field).     *)

SchemaNames == {"a", "b"}
SchemaTypes == {"int"}
SchemaVals == {PyInt(1), PyStr(Chr_ab)}
SchemaDicts == {<<>>, << <<"a", "int">> >>, << <<"a", "int">>, <<"b", "str">> >>}
SchemaConds == {<<"true">>, <<"eq", "a", PyInt(1)>>}

NextSchema ==
    \/ \E fields \in SchemaDicts : Create("t", fields)
    \/ \E f \in SchemaNames, ty \in SchemaTypes : AddField("t", f, ty)
    \/ \E names \in SUBSET SchemaNames : DeleteFields("t", names)
    \/ \E kwargs \in KwargsOver(SchemaNames, SchemaVals) : AddRow("t", kwargs)
    \/ \E cond \in SchemaConds : DeleteRow("t", cond)
    \/ \E k \in 1..MaxRows, f \in SchemaNames : RowAddField("t", k, f, PyStr(Chr_ab))

SpecSchema == Init /\ [][NextSchema]_vars

\* the keyword arguments pass every check of add_row
ValidRow(t, kwargs) ==
    /\ Len(kwargs) = Len(t.fields)
    /\ \A i \in 1..Len(kwargs) :
          /\ kwargs[i][1] \in FieldNames(t)
          /\ IsInstance(kwargs[i][2], ExpectedType(t, kwargs[i][1]))

\* C2: add_row is atomic.  A call fails exactly when the count of values
\* differs from the count of fields, a name is not in the schema or a value
\* is not an instance of its field's type, and then the Database is what it
\* was; a call that passes appends exactly one Row at the end, holding the
\* supplied names, and changes neither the other Rows nor the fields.
C2_AddRowAtomic ==
    [][last'.op = "add_row" =>
         LET t == Tbl(last'.tbl)
             u == db'[IndexOf(db', last'.tbl)]
         IN /\ (last'.err = "none") <=> ValidRow(t, last'.arg)
            /\ last'.err # "none" => db' = db
            /\ last'.err = "none" =>
                 /\ u.fields = t.fields
                 /\ Len(u.rows) = Len(t.rows) + 1
                 /\ SubSeq(u.rows, 1, Len(t.rows)) = t.rows
                 /\ DOMAIN u.rows[Len(u.rows)] = KwNames(last'.arg)
                 /\ \A i \in 1..Len(db) : db[i].name # last'.tbl => db'[i] = db[i]]_vars

\* C2 witness: add_row has just failed its type check on a Table that holds a Row
C2_Witness ==
    /\ last.op = "add_row"
    /\ last.err = "TypeMismatch"
    /\ Len(Tbl("t").rows) >= 1

\* every Row of every Table has exactly the Table's field names
SchemaInv ==
    \A i \in 1..Len(db) : \A k \in 1..Len(db[i].rows) :
        DOMAIN db[i].rows[k] = FieldNames(db[i])

\* C3 as stated: the schema invariant holds in every state reachable by
\* add_field, delete_fields, add_row, delete_row and Row.add_field.
C3_Original == SchemaInv

\* C3 amended: the schema invariant holds initially and is kept by create,
\* add_row, delete_row and delete_fields, by Table.add_field on a Table
\* with no rows and by Row.add_field that overwrites a field the Row has.
C3_SchemaInvariantKept ==
    [][(/\ SchemaInv
        /\ \/ last'.op \in {"create", "add_row", "delete_row", "delete_fields"}
           \/ last'.op = "add_field" /\ Tbl(last'.tbl).rows = <<>>
           \/ /\ last'.op = "row_add_field"
              /\ last'.arg[2] \in DOMAIN Tbl(last'.tbl).rows[last'.arg[1]])
       => SchemaInv']_vars

\* C3 witness: delete_fields has removed a Field of a Table that holds a Row
\* and still has a Field, and the Rows agree with the schema
C3_Witness ==
    /\ last.op = "delete_fields"
    /\ last.ret >= 1
    /\ Len(Tbl("t").rows) >= 1
    /\ Len(Tbl("t").fields) >= 1
    /\ SchemaInv

---------------------------------------------------------------------------
(* SpecRows: rows of every field kind in one Table, queried and deleted by *)
(* predicate.                                                              *)

RowsNames == {"a", "b"}
RowsVals ==
    {PyInt(1), PyFloat(1, <<"5">>), PyStr(Chr_ab), PyStr(Chr_12), PyStr(Chr_true),
     ListAB, DictA1}
RowsDicts ==
    { << <<"a", "str">> >>,
      << <<"a", "int">>, <<"b", "list">> >>,
      << <<"a", "float">>, <<"b", "dict">> >> }
RowsConds ==
    {<<"true">>, <<"eq", "a", PyStr(Chr_ab)>>, <<"eq", "a", PyInt(12)>>}
RowsAmounts == 0..MaxRows

NextRows ==
    \/ \E fields \in RowsDicts : Create("t", fields)
    \/ \E kwargs \in KwargsOver(RowsNames, RowsVals) : AddRow("t", kwargs)
    \/ \E cond \in RowsConds : DeleteRow("t", cond)
    \/ \E cond \in RowsConds, amount \in RowsAmounts : Find("t", cond, amount)

SpecRows == Init /\ [][NextRows]_vars

\* the mapping a caller passed as keyword arguments
KwMap(kwargs) == [n \in KwNames(kwargs) |-> KwValue(kwargs, n)]

\* C4: after a successful add_row(values), the last Row find() returns has
\* get() equal to the supplied mapping and get(name) equal to the supplied
\* value for every name, for every value of every field kind.
C4_ReadYourWrites ==
    (last.op = "add_row" /\ last.err = "none") =>
        LET found == find(Tbl(last.tbl), <<"true">>, 0)
            row == found[Len(found)]
        IN /\ Row_get_all(row) = KwMap(last.arg)
           /\ \A n \in KwNames(last.arg) : Row_get(row, n) = KwValue(last.arg, n)

\* the indices of the Rows of t the predicate accepts, and the j-th of them
Hits(t, cond) == {k \in 1..Len(t.rows) : Condition(cond, t.rows[k])}
Nth(S, j) == CHOOSE k \in S : Cardinality({h \in S : h <= k}) = j

\* C6: find(predicate, limit) returns the Rows that satisfy the predicate in
\* their order in the Table, the first min(limit, matches) of them when
\* limit > 0 and all of them when limit = 0, and changes no Table.
C6_FindInOrder ==
    [][last'.op = "find" =>
         LET t == Tbl(last'.tbl)
             cond == last'.arg[1]
             amount == last'.arg[2]
             hits == Hits(t, cond)
             n == IF amount > 0 /\ amount < Cardinality(hits)
                  THEN amount ELSE Cardinality(hits)
         IN /\ db' = db
            /\ last'.err = "none"
            /\ Len(last'.ret) = n
            /\ \A j \in 1..n : last'.ret[j] = t.rows[Nth(hits, j)]]_vars

\* C6 witness: find with a predicate and limit 1 has returned one Row of a
\* Table in which two Rows match
C6_Witness ==
    /\ last.op = "find"
    /\ last.arg[1][1] = "eq"
    /\ last.arg[2] = 1
    /\ Len(last.ret) = 1
    /\ Cardinality(Hits(Tbl("t"), last.arg[1])) = 2

\* C8: delete_row(predicate) removes every Row the predicate accepts and
\* keeps every other Row, in order and unchanged, never raises, leaves the
\* fields as they were, and changes nothing when no Row matches.
C8_DeleteRowAll ==
    [][last'.op = "delete_row" =>
         LET t == Tbl(last'.tbl)
             u == db'[IndexOf(db', last'.tbl)]
             kept == (1..Len(t.rows)) \ Hits(t, last'.arg)
         IN /\ last'.err = "none"
            /\ u.fields = t.fields
            /\ Hits(u, last'.arg) = {}
            /\ Len(u.rows) = Cardinality(kept)
            /\ \A j \in 1..Cardinality(kept) : u.rows[j] = t.rows[Nth(kept, j)]
            /\ Hits(t, last'.arg) = {} => db' = db]_vars

\* C8 witness: delete_row with a predicate has removed two or more matching
\* Rows in one call
C8_Witness ==
    /\ last.op = "delete_row"
    /\ last.arg[1] = "eq"
    /\ last.ret >= 2

---------------------------------------------------------------------------
(* SpecRoundTrip: Databases built by create and add_row alone, saved and   *)
(* loaded into a new Database.                                             *)

TripKwargs ==
    { << <<"a", PyStr(Chr_ab)>>, <<"b", ListAB>> >>,
      << <<"a", PyStr(Chr_12)>>, <<"b", ListAB>> >>,
      << <<"a", PyInt(1)>>, <<"b", PyFloat(1, <<"5">>)>> >>,
      << <<"a", DictA1>> >> }
TripDicts ==
    { << <<"a", "str">>, <<"b", "list">> >>,
      << <<"a", "int">>, <<"b", "float">> >> }
TripDictU == << <<"a", "dict">> >>

NextRoundTrip ==
    \/ \E fields \in TripDicts : Create("t", fields)
    \/ Create("u", TripDictU)
    \/ \E n \in {"t", "u"}, kwargs \in TripKwargs : AddRow(n, kwargs)
    \/ Save
    \/ LoadFresh

SpecRoundTrip == Init /\ [][NextRoundTrip]_vars

\* the type load() is to infer for a declared type
Inferred(data_type) == IF data_type \in {"list", "dict"} THEN "union" ELSE data_type

\* Table u is Table t reloaded: same field names, corresponding types, the
\* same decoded Rows in order
SameTable(t, u) ==
    /\ Len(u.fields) = Len(t.fields)
    /\ \A j \in 1..Len(t.fields) :
          /\ u.fields[j].name = t.fields[j].name
          /\ u.fields[j].data_type = Inferred(t.fields[j].data_type)
    /\ Len(u.rows) = Len(t.rows)
    /\ \A k \in 1..Len(t.rows) : Row_get_all(u.rows[k]) = Row_get_all(t.rows[k])

SameDatabase(d, e) ==
    /\ TableNames(e) = TableNames(d)
    /\ \A n \in TableNames(d) : SameTable(d[IndexOf(d, n)], e[IndexOf(e, n)])

\* C1: save() followed by load() into a new Database bound to the same file
\* completes without error and yields every Table with the same field
\* names, the corresponding types and the same decoded Rows in order.
C1_RoundTrip ==
    [][(last.op = "save" /\ last.err = "none" /\ last'.op = "load_fresh")
         => (last'.err = "none" /\ SameDatabase(db, fresh'))]_vars

---------------------------------------------------------------------------
(* Spec: a Database of up to two Tables with its file: Tables created and  *)
(* deleted, rows added and deleted, save() and load() on the same Database.*)

FileTables == {"t", "u"}
FileDict == << <<"a", "str">> >>
FileKwargs ==
    [t |-> {<< <<"a", PyStr(Chr_ab)>> >>},
     u |-> {<< <<"a", PyStr(Chr_ab)>> >>, << <<"a", PyStr(Chr_12)>> >>}]
FileConds == {<<"eq", "a", PyStr(Chr_ab)>>}

Next ==
    \/ \E n \in FileTables : Create(n, FileDict)
    \/ \E n \in FileTables : Delete(n)
    \/ \E n \in FileTables : \E kwargs \in FileKwargs[n] : AddRow(n, kwargs)
    \/ \E n \in FileTables, cond \in FileConds : DeleteRow(n, cond)
    \/ Save
    \/ Load

Spec == Init /\ [][Next]_vars

PersistedNames(f) == {f[i].name : i \in 1..Len(f)}

\* persisted table p holds Table t: one column per Field, named alike, and
\* one stored row per Row with the Row's values
Holds(p, t) ==
    /\ Len(p.cols) = Len(t.fields)
    /\ \A j \in 1..Len(t.fields) : p.cols[j].name = t.fields[j].name
    /\ Len(p.rows) = Len(t.rows)
    /\ \A k \in 1..Len(t.rows) : \A j \in 1..Len(t.fields) :
          p.rows[k][j] = t.rows[k][t.fields[j].name]

\* C5: after save() the file is an exact image of the Database: the
\* persisted tables are the in-memory Tables, each holding its Table's
\* current rows, and nothing deleted in memory survives in the file.
C5_FileIsImage ==
    (last.op = "save" /\ last.err = "none") =>
        /\ PersistedNames(file) = TableNames(db)
        /\ \A i \in 1..Len(file) : \A j \in 1..Len(db) :
              file[i].name = db[j].name => Holds(file[i], db[j])

\* C10: load() never overwrites and is not transactional.  Every Table the
\* Database held is left as it was; the Tables load() created are the
\* persisted tables in file order up to the one it failed at; a persisted
\* name the Database already holds makes load() fail, with
\* TableAlreadyExists when that table is reached, every Table created
\* before it staying fully loaded; a persisted row add_row rejects makes
\* load() fail with the Table it was loading holding the rows before it;
\* later persisted tables are not loaded.
C10_LoadNotTransactional ==
    [][last'.op = "load" =>
         LET made == Len(db') - Len(db)
             new == SubSeq(db', Len(db) + 1, Len(db'))
             Full(j) == Len(new[j].rows) = Len(file[j].rows)
         IN /\ made >= 0
            /\ SubSeq(db', 1, Len(db)) = db
            /\ made <= Len(file)
            /\ \A j \in 1..made :
                 /\ new[j].name = file[j].name
                 /\ new[j].name \notin TableNames(db)
                 /\ \A k \in 1..Len(new[j].rows) : \A c \in 1..Len(file[j].cols) :
                       new[j].rows[k][file[j].cols[c].name] =
                          serialize(deserialize(file[j].rows[k][c]))
            /\ \A j \in 1..(made - 1) : Full(j)
            /\ (PersistedNames(file) \cap TableNames(db) # {}) => last'.err # "none"
            /\ last'.err = "none" => made = Len(file) /\ \A j \in 1..made : Full(j)
            /\ last'.err = "TableAlreadyExists" =>
                 /\ made < Len(file)
                 /\ file[made + 1].name \in TableNames(db)
                 /\ \A j \in 1..made : Full(j)
            /\ last'.err \notin {"none", "TableAlreadyExists"} =>
                 /\ made >= 1
                 /\ Len(new[made].rows) < Len(file[made].rows)]_vars

\* C10 witness: load() has failed on the second row of the second persisted
\* table, and the Database keeps the first Table and the first row
C10_Witness ==
    /\ last.op = "load"
    /\ last.err = "TypeMismatch"
    /\ Len(db) = 2
    /\ Len(file) = 2
    /\ db[1].name = file[1].name
    /\ Len(db[2].rows) = 1
    /\ Len(file[2].rows) = 2

---------------------------------------------------------------------------
(* SpecNames: the table mapping of a Database under create, get and        *)
(* delete, with rows in the Tables.                                        *)

NamesTables == {"t", "u", "v"}
NamesDicts == {<< <<"a", "str">> >>, << <<"a", "int">>, <<"b", "str">> >>}
NamesKwargs == {<< <<"a", PyStr(Chr_ab)>> >>, << <<"a", PyInt(1)>>, <<"b", PyStr(Chr_12)>> >>}

NextNames ==
    \/ \E n \in NamesTables, fields \in NamesDicts : Create(n, fields)
    \/ \E n \in NamesTables : Delete(n)
    \/ \E n \in NamesTables : Get(n)
    \/ \E n \in NamesTables, kwargs \in NamesKwargs : AddRow(n, kwargs)

SpecNames == Init /\ [][NextNames]_vars

\* no two Tables of the Database have the same name
UniqueNames(d) == \A i, j \in 1..Len(d) : d[i].name = d[j].name => i = j

\* C9: Table names are unique.  create on a name present fails with
\* TableAlreadyExists and changes nothing; create on an absent name stores a
\* new empty Table with the given fields and changes no other Table; get and
\* delete fail with TableNotFound exactly when the name is absent, get
\* returns the stored Table, and neither changes another Table.
C9_UniqueTableNames ==
    [][/\ UniqueNames(db')
       /\ last'.op = "create" =>
            IF last'.tbl \in TableNames(db)
            THEN last'.err = "TableAlreadyExists" /\ db' = db
            ELSE /\ last'.err = "none"
                 /\ TableNames(db') = TableNames(db) \cup {last'.tbl}
                 /\ get(db', last'.tbl).tbl.rows = <<>>
                 /\ get(db', last'.tbl).tbl.fields =
                       [j \in 1..Len(last'.arg) |->
                          Field(last'.arg[j][1], last'.arg[j][2])]
                 /\ \A n \in TableNames(db) : get(db', n).tbl = get(db, n).tbl
       /\ last'.op = "get" =>
            /\ db' = db
            /\ (last'.err = "TableNotFound") <=> (last'.tbl \notin TableNames(db))
            /\ (last'.err = "none") <=> (last'.tbl \in TableNames(db))
            /\ last'.err = "none" => last'.ret = db[IndexOf(db, last'.tbl)]
       /\ last'.op = "delete" =>
            /\ (last'.err = "TableNotFound") <=> (last'.tbl \notin TableNames(db))
            /\ (last'.err = "none") <=> (last'.tbl \in TableNames(db))
            /\ last'.err # "none" => db' = db
            /\ last'.err = "none" =>
                 /\ TableNames(db') = TableNames(db) \ {last'.tbl}
                 /\ \A n \in TableNames(db') : get(db', n).tbl = get(db, n).tbl]_vars

\* C9 witness: create has just failed on the name of a Table that holds rows
C9_Witness ==
    /\ last.op = "create"
    /\ last.err = "TableAlreadyExists"
    /\ Len(get(db, last.tbl).tbl.rows) >= 1

=============================================================================
